---- MODULE Spec2Model ----
(***************************************************************************)
(* Model of package iffy (src/unnamed/part_000): the Tester that runs a    *)
(* scripted list of Calls against an in-process http.Handler, the Values   *)
(* store with its template functions, and the built-in checkers.           *)
(***************************************************************************)
EXTENDS Integers, Sequences, FiniteSets, TLC

\* Longest call list explored (NewTester arguments plus AddCall appends).
MaxCalls == 2

\* Longest key path given to a template function or to a branch checker.
MaxPath == 3

\* Longest node path given to ExpectJSONBranch.
MaxNodes == 4

(***************************************************************************)
(* JSON documents and decoded Go values.  Every value is a record of the   *)
(* same shape: t is the dynamic type, s the text of a string, n the value  *)
(* of a number, m the members of an object or list as <<key, value>>       *)
(* pairs (a list uses its indexes "0", "1", ... as keys).                  *)
(***************************************************************************)
JNum(n) == [t |-> "num", s |-> "", n |-> n, m |-> {}]

JStr(s) == [t |-> "str", s |-> s, n |-> 0, m |-> {}]

JObj(m) == [t |-> "obj", s |-> "", n |-> 0, m |-> m]

JList(m) == [t |-> "list", s |-> "", n |-> 0, m |-> m]

\* A body that is not JSON text at all (s is the text; "" is the empty body).
JInvalid(s) == [t |-> "invalid", s |-> s, n |-> 0, m |-> {}]

\* var retJson map[string]interface{}: the nil map the generic capture starts from.
JNilMap == [t |-> "nilmap", s |-> "", n |-> 0, m |-> {}]

\* A decode target nothing was decoded into.
JUnset == [t |-> "unset", s |-> "", n |-> 0, m |-> {}]

\* Go map operations on a set of <<key, value>> pairs with distinct keys.
MapHas(m, k) == \E p \in m : p[1] = k

MapGet(m, k) == (CHOOSE p \in m : p[1] = k)[2]

MapSet(m, k, v) == {p \in m : p[1] # k} \cup {<<k, v>>}

MapKeys(m) == {p[1] : p \in m}

\* The keys the model uses, in the sorted order fmt and encoding/json print maps in.
KeyOrder == <<"0", "1", "a", "b", "c", "create", "fetch", "id", "x">>

(***************************************************************************)
(* fmt's %v of a decoded value, which is how text/template prints the      *)
(* result of an action.  A JSON number decodes to a float64, and %v of a   *)
(* float64 is strconv's shortest %g: plain digits while the decimal        *)
(* exponent is below 6, exponent notation from 1e+06 on.  Numbers are the  *)
(* non-negative integers.                                                  *)
(***************************************************************************)
Digit(d) == CASE d = 0 -> "0" [] d = 1 -> "1" [] d = 2 -> "2" [] d = 3 -> "3"
              [] d = 4 -> "4" [] d = 5 -> "5" [] d = 6 -> "6" [] d = 7 -> "7"
              [] d = 8 -> "8" [] d = 9 -> "9"

RECURSIVE Itoa(_)
Itoa(n) == IF n < 10 THEN Digit(n) ELSE Itoa(n \div 10) \o Digit(n % 10)

RECURSIVE Exp10(_)
Exp10(n) == IF n < 10 THEN 0 ELSE 1 + Exp10(n \div 10)

RECURSIVE StripZeros(_)
StripZeros(n) == IF n # 0 /\ n % 10 = 0 THEN StripZeros(n \div 10) ELSE n

RECURSIVE Tail1(_)
\* the decimal digits of n after the first one
Tail1(n) == IF n < 10 THEN "" ELSE Tail1(n \div 10) \o Digit(n % 10)

RECURSIVE Head1(_)
Head1(n) == IF n < 10 THEN Digit(n) ELSE Head1(n \div 10)

FmtFloat(n) ==
    IF Exp10(n) < 6
    THEN Itoa(n)
    ELSE LET e == Exp10(n)
             d == StripZeros(n)
         IN  Head1(d) \o (IF d < 10 THEN "" ELSE "." \o Tail1(d))
                 \o "e+" \o (IF e < 10 THEN "0" ELSE "") \o Itoa(e)

RECURSIVE FmtV(_)
RECURSIVE FmtMembers(_, _, _, _)
\* the members of m in key order from position i on; keyed prints "k:v", else "v"
FmtMembers(m, i, keyed, first) ==
    IF i > Len(KeyOrder) THEN ""
    ELSE IF ~MapHas(m, KeyOrder[i]) THEN FmtMembers(m, i + 1, keyed, first)
    ELSE (IF first THEN "" ELSE " ")
             \o (IF keyed THEN KeyOrder[i] \o ":" ELSE "")
             \o FmtV(MapGet(m, KeyOrder[i]))
             \o FmtMembers(m, i + 1, keyed, FALSE)

FmtV(v) ==
    CASE v.t = "str" -> v.s
      [] v.t = "num" -> FmtFloat(v.n)
      [] v.t = "obj" -> "map[" \o FmtMembers(v.m, 1, TRUE, TRUE) \o "]"
      [] v.t = "nilmap" -> "map[]"
      [] v.t = "list" -> "[" \o FmtMembers(v.m, 1, FALSE, TRUE) \o "]"

(***************************************************************************)
(* Template strings.  A template string is held parsed, as the sequence of *)
(* its parts: literal text, a {{field k1 k2 ...}} action, a {{json k1 ...}}*)
(* action, or text that text/template cannot parse.  The empty string is   *)
(* the empty sequence.                                                     *)
(***************************************************************************)
Lit(s) == [k |-> "lit", s |-> s, path |-> <<>>]

Field(path) == [k |-> "field", s |-> "", path |-> path]

Json(path) == [k |-> "json", s |-> "", path |-> path]

Malformed == [k |-> "bad", s |-> "{{", path |-> <<>>]

\* A function result: err is the error flag, v the value (JUnset with an error).
Ok(v) == [err |-> FALSE, v |-> v]

Err == [err |-> TRUE, v |-> JUnset]

RECURSIVE fieldWalk(_, _, _)
\* the loop of fieldTmpl from key position p on, i being the current value
fieldWalk(i, key, p) ==
    IF p > Len(key) THEN Ok(i)
    ELSE IF i.t \in {"obj", "nilmap"}
    THEN fieldWalk(IF MapHas(i.m, key[p]) THEN MapGet(i.m, key[p])
                   ELSE JStr("<no value>"), key, p + 1)
    ELSE Err

fieldTmplFirstKeyOnly(v, key) ==
    fieldWalk(JObj(v), IF key = <<>> THEN key ELSE <<key[1]>>, 1)

\* Values.fieldTmpl
fieldTmpl(v, key) == fieldWalk(JObj(v), key, 1)

\* encoding/json's text of a string: quoted, with < and > written as \u003c and
\* \u003e (the strings of the model hold no other character that is escaped).
JSONQuote(s) ==
    "\"" \o (IF s = "<no value>" THEN "\\u003cno value\\u003e" ELSE s) \o "\""

RECURSIVE Marshal(_)
RECURSIVE MarshalMembers(_, _, _, _)
MarshalMembers(m, i, keyed, first) ==
    IF i > Len(KeyOrder) THEN ""
    ELSE IF ~MapHas(m, KeyOrder[i]) THEN MarshalMembers(m, i + 1, keyed, first)
    ELSE (IF first THEN "" ELSE ",")
             \o (IF keyed THEN JSONQuote(KeyOrder[i]) \o ":" ELSE "")
             \o Marshal(MapGet(m, KeyOrder[i]))
             \o MarshalMembers(m, i + 1, keyed, FALSE)

\* json.Marshal of a decoded value (a float64 below 1e21 is written in plain digits)
Marshal(v) ==
    CASE v.t = "str" -> JSONQuote(v.s)
      [] v.t = "num" -> Itoa(v.n)
      [] v.t = "obj" -> "{" \o MarshalMembers(v.m, 1, TRUE, TRUE) \o "}"
      [] v.t = "nilmap" -> "null"
      [] v.t = "list" -> "[" \o MarshalMembers(v.m, 1, FALSE, TRUE) \o "]"

jsonFieldTmplPrints(v, key) ==
    LET r == fieldTmpl(v, key)
    IN  IF r.err THEN Err ELSE Ok(JStr(FmtV(r.v)))

\* Values.jsonFieldTmpl
jsonFieldTmpl(v, key) ==
    LET r == fieldTmpl(v, key)
    IN  IF r.err THEN Err ELSE Ok(JStr(Marshal(r.v)))

\* One part of a template executed against the store v: the text it writes.
ExecPart(v, part) ==
    CASE part.k = "lit" -> [err |-> FALSE, out |-> part.s]
      [] part.k = "field" ->
           LET r == fieldTmpl(v, part.path)
           IN  IF r.err THEN [err |-> TRUE, out |-> ""]
               ELSE [err |-> FALSE, out |-> FmtV(r.v)]
      [] part.k = "json" ->
           LET r == jsonFieldTmpl(v, part.path)
           IN  IF r.err THEN [err |-> TRUE, out |-> ""]
               ELSE [err |-> FALSE, out |-> FmtV(r.v)]
      [] OTHER -> [err |-> TRUE, out |-> ""]

RECURSIVE ExecFrom(_, _, _)
ExecFrom(v, tmpl, p) ==
    IF p > Len(tmpl) THEN [err |-> FALSE, out |-> ""]
    ELSE LET a == ExecPart(v, tmpl[p])
             b == ExecFrom(v, tmpl, p + 1)
         IN  IF a.err \/ b.err THEN [err |-> TRUE, out |-> ""]
             ELSE [err |-> FALSE, out |-> a.out \o b.out]

\* Values.Apply: a parse error or an execution error returns (nil, err).
Apply(v, templateStr) ==
    IF \E p \in 1..Len(templateStr) : templateStr[p].k = "bad"
    THEN [err |-> TRUE, out |-> ""]
    ELSE ExecFrom(v, templateStr, 1)

(***************************************************************************)
(* encoding/json decoding of a response body.  The body is held as the     *)
(* document its bytes spell (JInvalid when they spell none).               *)
(***************************************************************************)
\* json.Unmarshal(rb, &retJson), retJson a nil map[string]interface{}: only an
\* object decodes; on any error retJson stays the nil map.
UnmarshalMap(doc) ==
    IF doc.t = "obj" THEN [err |-> FALSE, v |-> doc] ELSE [err |-> TRUE, v |-> JNilMap]

\* json.Unmarshal(rb, c.respObject) for the targets of the model: a pointer to a
\* struct takes an object, a pointer to a slice takes a list.
UnmarshalTyped(doc, target) ==
    IF target = "struct" THEN doc.t # "obj" ELSE doc.t # "list"

(***************************************************************************)
(* Bodies.  kind is the concrete type, tmpl the template string a          *)
(* StringBody holds, ctype what ContentType() returns, fails whether       *)
(* GetBody returns an error.                                               *)
(***************************************************************************)
NoopBody == [kind |-> "NoopBody", tmpl |-> <<>>, ctype |-> "", fails |-> FALSE]

StringBody(val) ==
    [kind |-> "StringBody", tmpl |-> val, ctype |-> "application/json", fails |-> FALSE]

\* A caller's own Body implementation whose GetBody returns an error.
ErrBody == [kind |-> "ErrBody", tmpl |-> <<>>, ctype |-> "text/plain", fails |-> TRUE]

\* Tester.applyTemplate: the rendered text, or "" and one report on an error.
applyTemplateKeepsSource(v, s) ==
    LET b == Apply(v, s)
    IN  [out |-> IF b.err THEN "{{" ELSE b.out, failed |-> b.err, reports |-> IF b.err THEN 1 ELSE 0]

applyTemplateSilent(v, s) ==
    LET b == Apply(v, s)
    IN  [out |-> IF b.err THEN "" ELSE b.out, failed |-> b.err, reports |-> 0]

applyTemplate(v, s) ==
    LET b == Apply(v, s)
    IN  [out |-> IF b.err THEN "" ELSE b.out, failed |-> b.err, reports |-> IF b.err THEN 1 ELSE 0]

\* Body.GetBody(t.applyTemplate): the stream, the error, and whether the render
\* function was called (rendered) with what it returned (r).
GetBodyOf(body, v) ==
    CASE body.kind = "StringBody" ->
           LET r == applyTemplate(v, body.tmpl)
           IN  [err |-> FALSE, out |-> r.out, rendered |-> TRUE, r |-> r]
      [] OTHER ->
           [err |-> body.fails, out |-> "", rendered |-> FALSE,
            r |-> [out |-> "", failed |-> FALSE, reports |-> 0]]

(***************************************************************************)
(* net/http as Run uses it.                                                *)
(***************************************************************************)
\* Methods that are not a token, and URLs url.Parse refuses, among those modelled.
BadMethods == {"BAD METHOD"}

BadURLs == {":bad"}

NoReq == [built |-> FALSE, method |-> "", url |-> "", header |-> {}, body |-> ""]

\* http.NewRequest: an empty method means GET, an empty URL parses.
NewRequestOf(method, url, body) ==
    IF method \in BadMethods \/ url \in BadURLs
    THEN [err |-> TRUE, req |-> NoReq]
    ELSE [err |-> FALSE,
          req |-> [built |-> TRUE, method |-> IF method = "" THEN "GET" ELSE method,
                   url |-> url, header |-> {}, body |-> body]]

\* textproto.CanonicalMIMEHeaderKey on the header names of the model.
CanonicalKey(k) ==
    CASE k = "content-type" -> "Content-Type"
      [] k = "x-id" -> "X-Id"
      [] OTHER -> k

\* Header.Set
HeaderSet(h, k, v) == MapSet(h, CanonicalKey(k), v)

NoResp == [status |-> 0, doc |-> JUnset, hasBody |-> FALSE]

\* What the handler under test may answer: httptest's recorder always yields a
\* response whose Body is not nil.
Responses ==
    { [status |-> 200, doc |-> JObj({<<"id", JNum(7)>>}), hasBody |-> TRUE],
      [status |-> 200, doc |-> JObj({<<"id", JNum(1000000)>>}), hasBody |-> TRUE],
      [status |-> 200, doc |-> JList({<<"0", JNum(1)>>, <<"1", JNum(2)>>}), hasBody |-> TRUE],
      [status |-> 404, doc |-> JInvalid("not found"), hasBody |-> TRUE] }

\* Answers whose body is no JSON object: no bytes at all, a list, a string, a
\* number, bytes that are no JSON.
NonObjectResponses ==
    { [status |-> 204, doc |-> JInvalid(""), hasBody |-> TRUE],
      [status |-> 200, doc |-> JList({<<"0", JNum(1)>>, <<"1", JNum(2)>>}), hasBody |-> TRUE],
      [status |-> 200, doc |-> JStr("ok"), hasBody |-> TRUE],
      [status |-> 200, doc |-> JNum(5), hasBody |-> TRUE],
      [status |-> 404, doc |-> JInvalid("not found"), hasBody |-> TRUE] }

(***************************************************************************)
(* Checkers.                                                               *)
(***************************************************************************)
ExpectStatus(st) == [k |-> "ExpectStatus", n |-> st, fields |-> <<>>]

ExpectJSONFields(fields) == [k |-> "ExpectJSONFields", n |-> 0, fields |-> fields]

ExpectListLength(length) == [k |-> "ExpectListLength", n |-> length, fields |-> <<>>]

ExpectListNonEmpty == [k |-> "ExpectListNonEmpty", n |-> 0, fields |-> <<>>]

ExpectJSONBranch(nodes) == [k |-> "ExpectJSONBranch", n |-> 0, fields |-> nodes]

RECURSIVE branchWalkNeverCompares(_, _, _)
branchWalkNeverCompares(m, nodes, i) ==
    IF i > Len(nodes) THEN FALSE
    ELSE IF ~MapHas(m, nodes[i]) THEN TRUE
    ELSE LET v == MapGet(m, nodes[i])
         IN  IF v.t = "obj" THEN branchWalkNeverCompares(v.m, nodes, i + 1)
             ELSE IF i = Len(nodes) - 1 THEN FALSE
             ELSE branchWalkNeverCompares(m, nodes, i + 1)

RECURSIVE branchWalkStopsAtValue(_, _, _)
branchWalkStopsAtValue(m, nodes, i) ==
    IF i > Len(nodes) THEN FALSE
    ELSE IF ~MapHas(m, nodes[i]) THEN TRUE
    ELSE LET v == MapGet(m, nodes[i])
         IN  IF v.t = "obj" THEN branchWalkStopsAtValue(v.m, nodes, i + 1)
             ELSE IF i = Len(nodes) - 1 THEN FmtV(v) # nodes[i + 1]
             ELSE i < Len(nodes)

RECURSIVE branchWalk(_, _, _)
\* the loop of ExpectJSONBranch from node i on (counted from 1), m being the
\* current object: TRUE when it returns an error
branchWalk(m, nodes, i) ==
    IF i > Len(nodes) THEN FALSE
    ELSE IF ~MapHas(m, nodes[i]) THEN TRUE
    ELSE LET v == MapGet(m, nodes[i])
         IN  IF v.t = "obj" THEN branchWalk(v.m, nodes, i + 1)
             ELSE IF i = Len(nodes) - 1 THEN FmtV(v) # nodes[i + 1]
             ELSE branchWalk(m, nodes, i + 1)

\* The checker ExpectJSONBranch(nodes...) on a body: TRUE when it returns an error.
ExpectJSONBranchErr(nodes, body) ==
    body.t # "obj" \/ branchWalk(body.m, nodes, 1)

\* checker(resp, respBody, c.respObject) # nil, body being the document that
\* the text respBody spells
CheckerErr(ch, r, body) ==
    CASE ch.k = "ExpectStatus" -> r.status # ch.n
      [] ch.k = "ExpectJSONFields" ->
           \/ body.t # "obj"
           \/ \E f \in 1..Len(ch.fields) : ~MapHas(body.m, ch.fields[f])
      [] ch.k = "ExpectListLength" ->
           body.t # "list" \/ Cardinality(body.m) # ch.n
      [] ch.k = "ExpectListNonEmpty" ->
           body.t # "list" \/ Cardinality(body.m) = 0
      [] ch.k = "ExpectJSONBranch" -> ExpectJSONBranchErr(ch.fields, body)

(***************************************************************************)
(* Calls.                                                                  *)
(***************************************************************************)
Call(name, method, querystr, body, headers, checkers, respObject) ==
    [Name |-> name, Method |-> method, QueryStr |-> querystr, Body |-> body,
     headers |-> headers, checkers |-> checkers, respObject |-> respObject]

\* /items/{{field "create" "id"}}
FetchQuery == <<Lit("/items/"), Field(<<"create", "id">>)>>

\* The Calls a caller builds as literals and hands to NewTester.
LiteralCalls ==
    { Call("create", "POST", <<Lit("/items")>>, StringBody(<<Lit("n=1")>>),
           {<< <<Lit("content-type")>>, <<Lit("text/xml")>> >>},
           <<ExpectStatus(200)>>, "nil"),
      Call("fetch", "GET", FetchQuery, NoopBody,
           {<< <<Lit("x-id")>>, <<Field(<<"create", "id">>)>> >>},
           <<ExpectStatus(200), ExpectJSONFields(<<"id">>)>>, "nil"),
      Call("create", "GET", <<Lit("/items")>>, NoopBody, {},
           <<ExpectListNonEmpty>>, "slice"),
      Call("fetch", "GET", <<Lit("/items/"), Malformed>>, NoopBody, {},
           <<ExpectStatus(200)>>, "nil"),
      Call("fetch", "BAD METHOD", <<Lit("/items")>>, NoopBody, {},
           <<ExpectStatus(200)>>, "nil"),
      Call("fetch", "GET", <<Lit(":bad")>>, NoopBody, {},
           <<ExpectStatus(200)>>, "nil"),
      Call("fetch", "POST", <<Lit("/items")>>, ErrBody, {},
           <<ExpectStatus(200)>>, "nil") }

\* The body arguments AddCall is given: dyn is the dynamic type of the
\* interface{} value, b the Body it holds, str the string it holds.
BodyArgs ==
    { [dyn |-> "Body", b |-> StringBody(<<Lit("n=1")>>), str |-> <<>>],
      [dyn |-> "string", b |-> NoopBody, str |-> <<Lit("id="), Field(<<"create", "id">>)>>],
      [dyn |-> "string", b |-> NoopBody, str |-> <<>>],
      [dyn |-> "nil", b |-> NoopBody, str |-> <<>>] }

CallLists == UNION {[1..k -> LiteralCalls] : k \in 0..MaxCalls}

(***************************************************************************)
(* The state: the Tester's fields (Calls, values), the failures recorded   *)
(* by the *testing.T (reported), the position of Run (pc, idx, ci) with    *)
(* its locals (body, req, resp, respBody), the decode targets the Calls    *)
(* point to (decoded), and the history of what Run did (trace).  eval is   *)
(* the last call of a template function or checker made on its own: the    *)
(* function, the document and keys it was given, and what it returned.     *)
(***************************************************************************)
VARIABLES Calls, values, reported, pc, idx, ci, body, req, resp, respBody,
          decoded, trace, eval

vars == <<Calls, values, reported, pc, idx, ci, body, req, resp, respBody,
          decoded, trace, eval>>

NoEval == [fn |-> "none", doc |-> JUnset, path |-> <<>>, err |-> FALSE, v |-> JUnset]

\* An entry of the history: call c did ev (k and n say which, r with what response).
Ev(c, ev, k, n, r) == [c |-> c, ev |-> ev, k |-> k, n |-> n, r |-> r]

\* A failure recorded by t.t.Error / t.t.Errorf while call c ran; named when the
\* message carries the Call's name.
Rep(c, kind, named) == [c |-> c, kind |-> kind, named |-> named]

Times(x, n) == [i \in 1..n |-> x]

\* The history and the reports of one applyTemplate call, r being its result.
RenderEvents(c, what, r) ==
    <<Ev(c, "render", what, 0, NoResp)>>
        \o (IF r.failed THEN <<Ev(c, "fail", "render-" \o what, 0, NoResp)>> ELSE <<>>)

RenderReports(c, r) == Times(Rep(c, "render", FALSE), r.reports)

\* NewTester: the calls given, an empty Values map.
Init ==
    /\ Calls \in CallLists
    /\ values = {}
    /\ reported = <<>>
    /\ pc = "setup"
    /\ idx = 0
    /\ ci = 0
    /\ body = ""
    /\ req = NoReq
    /\ resp = NoResp
    /\ respBody = JUnset
    /\ decoded = [i \in 1..Len(Calls) |-> JUnset]
    /\ trace = <<>>
    /\ eval = NoEval

NormalizeBodyWrapsEveryString(arg) ==
    IF arg.dyn = "Body" THEN arg.b
    ELSE IF arg.dyn = "string" THEN StringBody(arg.str)
    ELSE NoopBody

\* The switch of AddCall on the dynamic type of body.
NormalizeBody(arg) ==
    IF arg.dyn = "Body" THEN arg.b
    ELSE IF arg.dyn = "string" /\ arg.str # <<>> THEN StringBody(arg.str)
    ELSE NoopBody

AddCall ==
    /\ pc = "setup"
    /\ UNCHANGED eval
    /\ Len(Calls) < MaxCalls
    /\ \E arg \in BodyArgs :
          Calls' = Append(Calls, Call("fetch", "GET", <<Lit("/items")>>,
                                      NormalizeBody(arg), {}, <<>>, "nil"))
    /\ decoded' = Append(decoded, JUnset)
    /\ UNCHANGED <<values, reported, pc, idx, ci, body, req, resp, respBody, trace>>

(***************************************************************************)
(* Tester.Run, one action per step of the loop body.                       *)
(***************************************************************************)
CurCall == Calls[idx]

AdvanceStopsAfterFailure(t) ==
    /\ idx' = idx + 1
    /\ pc' = IF idx + 1 > Len(Calls) \/ (t # <<>> /\ t[Len(t)].ev = "fail")
             THEN "done" ELSE "GetBody"
    /\ ci' = 0
    /\ body' = ""
    /\ req' = NoReq
    /\ resp' = NoResp
    /\ respBody' = JUnset
    /\ trace' = t \o (IF idx + 1 > Len(Calls) \/ (t # <<>> /\ t[Len(t)].ev = "fail")
                      THEN <<>> ELSE <<Ev(idx + 1, "call", "", 0, NoResp)>>)

\* The for statement moves to the next Call, or Run returns; the locals of the
\* loop body go out of scope.  t is the history so far.
Advance(t) ==
    /\ idx' = idx + 1
    /\ pc' = IF idx + 1 > Len(Calls) THEN "done" ELSE "GetBody"
    /\ ci' = 0
    /\ body' = ""
    /\ req' = NoReq
    /\ resp' = NoResp
    /\ respBody' = JUnset
    /\ trace' = t \o (IF idx + 1 > Len(Calls) THEN <<>>
                      ELSE <<Ev(idx + 1, "call", "", 0, NoResp)>>)

\* continue, after a failure that skips the Call.
SkipCallFallsThrough(t) ==
    /\ pc' = "ServeHTTP"
    /\ trace' = t
    /\ UNCHANGED <<idx, ci, body, req, resp, respBody>>

SkipCall(t) == Advance(t)

\* Run is called: the loop starts at the first Call.
RunStartRequiresCalls ==
    /\ pc = "setup"
    /\ UNCHANGED eval
    /\ Advance(trace)
    /\ reported' = IF Len(Calls) = 0 THEN <<Rep(0, "run", FALSE)>> ELSE reported
    /\ UNCHANGED <<Calls, values, decoded>>

RunStart ==
    /\ pc = "setup"
    /\ UNCHANGED eval
    /\ Advance(trace)
    /\ UNCHANGED <<Calls, values, reported, decoded>>

\* body, err := c.Body.GetBody(t.applyTemplate); an error is reported and the
\* Call skipped.
GetBody ==
    /\ pc = "GetBody"
    /\ UNCHANGED eval
    /\ LET g == GetBodyOf(CurCall.Body, values)
           t == trace \o (IF g.rendered THEN RenderEvents(idx, "body", g.r) ELSE <<>>)
       IN  /\ reported' = reported \o RenderReports(idx, g.r)
                             \o (IF g.err THEN <<Rep(idx, "body", FALSE)>> ELSE <<>>)
           /\ IF g.err
              THEN SkipCall(t \o <<Ev(idx, "fail", "body", 0, NoResp)>>)
              ELSE /\ body' = g.out
                   /\ pc' = "NewRequest"
                   /\ trace' = t
                   /\ UNCHANGED <<idx, ci, req, resp, respBody>>
    /\ UNCHANGED <<Calls, values, decoded>>

\* req, err := http.NewRequest(c.Method, t.applyTemplate(c.QueryStr), body); an
\* error is reported and the Call skipped.
NewRequest ==
    /\ pc = "NewRequest"
    /\ UNCHANGED eval
    /\ LET q == applyTemplate(values, CurCall.QueryStr)
           nr == NewRequestOf(CurCall.Method, q.out, body)
           t == trace \o RenderEvents(idx, "query", q)
       IN  /\ reported' = reported \o RenderReports(idx, q)
                             \o (IF nr.err THEN <<Rep(idx, "request", FALSE)>> ELSE <<>>)
           /\ IF nr.err
              THEN SkipCall(t \o <<Ev(idx, "fail", "request", 0, NoResp)>>)
              ELSE /\ req' = nr.req
                   /\ pc' = "SetHeaders"
                   /\ trace' = t
                   /\ UNCHANGED <<idx, ci, body, resp, respBody>>
    /\ UNCHANGED <<Calls, values, decoded>>

\* The orders in which range may visit the entries of a map.
Orders(m) ==
    {f \in [1..Cardinality(m) -> m] : \A x \in m : \E i \in 1..Cardinality(m) : f[i] = x}

RECURSIVE SetHeadersFrom(_, _, _, _)
\* req.Header.Set(t.applyTemplate(k), t.applyTemplate(v)) for the entries of hs
\* from position p on: the header, the history and the reports that result.
SetHeadersFrom(hs, p, h, c) ==
    IF p > Len(hs) THEN [header |-> h, events |-> <<>>, reports |-> <<>>]
    ELSE LET k == applyTemplate(values, hs[p][1])
             v == applyTemplate(values, hs[p][2])
             rest == SetHeadersFrom(hs, p + 1, HeaderSet(h, k.out, v.out), c)
         IN  [header |-> rest.header,
              events |-> RenderEvents(c, "header", k) \o RenderEvents(c, "header", v)
                             \o rest.events,
              reports |-> RenderReports(c, k) \o RenderReports(c, v) \o rest.reports]

SetHeadersBodyTypeLast ==
    /\ pc = "SetHeaders"
    /\ UNCHANGED eval
    /\ \E hs \in Orders(CurCall.headers) :
          LET contentType == CurCall.Body.ctype
              r == SetHeadersFrom(hs, 1, req.header, idx)
              h1 == IF contentType # "" THEN HeaderSet(r.header, "content-type", contentType)
                    ELSE r.header
          IN  /\ req' = [req EXCEPT !.header = h1]
              /\ reported' = reported \o r.reports
              /\ trace' = trace \o r.events
    /\ pc' = "ServeHTTP"
    /\ UNCHANGED <<Calls, values, idx, ci, body, resp, respBody, decoded>>

\* The Body's content type, if it has one, then the Call's headers.
SetHeaders ==
    /\ pc = "SetHeaders"
    /\ UNCHANGED eval
    /\ \E hs \in Orders(CurCall.headers) :
          LET contentType == CurCall.Body.ctype
              h0 == IF contentType # "" THEN HeaderSet(req.header, "content-type", contentType)
                    ELSE req.header
              r == SetHeadersFrom(hs, 1, h0, idx)
          IN  /\ req' = [req EXCEPT !.header = r.header]
              /\ reported' = reported \o r.reports
              /\ trace' = trace \o r.events
    /\ pc' = "ServeHTTP"
    /\ UNCHANGED <<Calls, values, idx, ci, body, resp, respBody, decoded>>

\* w := httptest.NewRecorder(); t.r.ServeHTTP(w, req); resp := w.Result()
ServeHTTPFrom(answers) ==
    /\ pc = "ServeHTTP"
    /\ UNCHANGED eval
    /\ \E r \in answers :
          /\ resp' = r
          /\ trace' = trace \o <<Ev(idx, "serve", req.url, 0, r)>>
    /\ pc' = "ReadBody"
    /\ UNCHANGED <<Calls, values, reported, idx, ci, body, req, respBody, decoded>>

ServeHTTP == ServeHTTPFrom(Responses)

\* The checkers come next: the first one if there is any, else the next Call.
\* rb is the text read from the response, t the history so far.
ToCheckers(rb, t) ==
    IF Len(CurCall.checkers) = 0
    THEN Advance(t)
    ELSE /\ pc' = "Checkers"
         /\ ci' = 1
         /\ respBody' = rb
         /\ trace' = t
         /\ UNCHANGED <<idx, body, req, resp>>

\* A typed decode that fails: reported, and the rest of the Call skipped.
DecodeFailedKeepsGoing ==
    /\ reported' = reported \o <<Rep(idx, "decode", FALSE)>>
    /\ respBody' = resp.doc
    /\ pc' = "Store"
    /\ trace' = trace \o <<Ev(idx, "fail", "decode", 0, resp)>>
    /\ UNCHANGED <<idx, ci, body, req, resp, decoded>>

DecodeFailed ==
    /\ reported' = reported \o <<Rep(idx, "decode", FALSE)>>
    /\ Advance(trace \o <<Ev(idx, "fail", "decode", 0, resp)>>)
    /\ UNCHANGED decoded

\* The body is read (reading a recorder's buffer does not fail) and decoded into
\* c.respObject when there is one.
ReadBody ==
    /\ pc = "ReadBody"
    /\ UNCHANGED eval
    /\ IF ~resp.hasBody
       THEN /\ ToCheckers(JInvalid(""), trace)
            /\ UNCHANGED <<reported, decoded>>
       ELSE IF CurCall.respObject # "nil" /\ UnmarshalTyped(resp.doc, CurCall.respObject)
       THEN DecodeFailed
       ELSE /\ respBody' = resp.doc
            /\ decoded' = IF CurCall.respObject # "nil"
                          THEN [decoded EXCEPT ![idx] = resp.doc] ELSE decoded
            /\ pc' = "Store"
            /\ UNCHANGED <<reported, idx, ci, body, req, resp, trace>>
    /\ UNCHANGED <<Calls, values>>

StoreWrongKey ==
    /\ pc = "Store"
    /\ UNCHANGED eval
    /\ LET u == UnmarshalMap(respBody)
       IN  /\ values' = MapSet(values, "", u.v)
           /\ ToCheckers(respBody,
                         trace \o (IF u.err THEN <<Ev(idx, "fail", "capture", 0, resp)>>
                                   ELSE <<>>)
                               \o <<Ev(idx, "store", "", 0, resp)>>)
    /\ UNCHANGED <<Calls, reported, decoded>>

StoreFailsCall ==
    /\ pc = "Store"
    /\ UNCHANGED eval
    /\ LET u == UnmarshalMap(respBody)
       IN  IF u.err
           THEN /\ reported' = reported \o <<Rep(idx, "capture", FALSE)>>
                /\ SkipCall(trace \o <<Ev(idx, "fail", "capture", 0, resp)>>)
                /\ UNCHANGED <<Calls, values, decoded>>
           ELSE /\ values' = MapSet(values, CurCall.Name, u.v)
                /\ ToCheckers(respBody, trace \o <<Ev(idx, "store", CurCall.Name, 0, resp)>>)
                /\ UNCHANGED <<Calls, reported, decoded>>

StoreReplacesAll ==
    /\ pc = "Store"
    /\ UNCHANGED eval
    /\ LET u == UnmarshalMap(respBody)
       IN  /\ values' = {<<CurCall.Name, u.v>>}
           /\ ToCheckers(respBody,
                         trace \o (IF u.err THEN <<Ev(idx, "fail", "capture", 0, resp)>>
                                   ELSE <<>>)
                               \o <<Ev(idx, "store", CurCall.Name, 0, resp)>>)
    /\ UNCHANGED <<Calls, reported, decoded>>

StoreSkipped ==
    /\ pc = "Store"
    /\ UNCHANGED eval
    /\ ToCheckers(respBody, trace)
    /\ UNCHANGED <<Calls, values, reported, decoded>>

\* var retJson map[string]interface{}; _ = json.Unmarshal(rb, &retJson);
\* t.values[c.Name] = retJson
Store ==
    /\ pc = "Store"
    /\ UNCHANGED eval
    /\ LET u == UnmarshalMap(respBody)
       IN  /\ values' = MapSet(values, CurCall.Name, u.v)
           /\ ToCheckers(respBody,
                         trace \o (IF u.err THEN <<Ev(idx, "fail", "capture", 0, resp)>>
                                   ELSE <<>>)
                               \o <<Ev(idx, "store", CurCall.Name, 0, resp)>>)
    /\ UNCHANGED <<Calls, reported, decoded>>

RunCheckerStoresAgain ==
    /\ pc = "Checkers"
    /\ UNCHANGED eval
    /\ LET failed == CheckerErr(CurCall.checkers[ci], resp, respBody)
           t == trace \o <<Ev(idx, "store", CurCall.Name, 0, resp)>>
                      \o <<Ev(idx, "check", "", ci, resp)>>
                      \o (IF failed THEN <<Ev(idx, "fail", "check", ci, resp)>> ELSE <<>>)
       IN  /\ reported' = reported \o (IF failed THEN <<Rep(idx, "check", TRUE)>> ELSE <<>>)
           /\ values' = MapSet(values, CurCall.Name, UnmarshalMap(respBody).v)
           /\ IF ci = Len(CurCall.checkers)
              THEN Advance(t)
              ELSE /\ ci' = ci + 1
                   /\ trace' = t
                   /\ UNCHANGED <<pc, idx, body, req, resp, respBody>>
    /\ UNCHANGED <<Calls, decoded>>

RunCheckerStopsAtFailure ==
    /\ pc = "Checkers"
    /\ UNCHANGED eval
    /\ LET failed == CheckerErr(CurCall.checkers[ci], resp, respBody)
           t == trace \o <<Ev(idx, "check", "", ci, resp)>>
                      \o (IF failed THEN <<Ev(idx, "fail", "check", ci, resp)>> ELSE <<>>)
       IN  /\ reported' = reported \o (IF failed THEN <<Rep(idx, "check", TRUE)>> ELSE <<>>)
           /\ IF ci = Len(CurCall.checkers) \/ failed
              THEN Advance(t)
              ELSE /\ ci' = ci + 1
                   /\ trace' = t
                   /\ UNCHANGED <<pc, idx, body, req, resp, respBody>>
    /\ UNCHANGED <<Calls, values, decoded>>

\* One checker of the Call: err := checker(resp, respBody, c.respObject), an
\* error being reported under the Call's name.
RunChecker ==
    /\ pc = "Checkers"
    /\ UNCHANGED eval
    /\ LET failed == CheckerErr(CurCall.checkers[ci], resp, respBody)
           t == trace \o <<Ev(idx, "check", "", ci, resp)>>
                      \o (IF failed THEN <<Ev(idx, "fail", "check", ci, resp)>> ELSE <<>>)
       IN  /\ reported' = reported \o (IF failed THEN <<Rep(idx, "check", TRUE)>> ELSE <<>>)
           /\ IF ci = Len(CurCall.checkers)
              THEN Advance(t)
              ELSE /\ ci' = ci + 1
                   /\ trace' = t
                   /\ UNCHANGED <<pc, idx, body, req, resp, respBody>>
    /\ UNCHANGED <<Calls, values, decoded>>

RunStep ==
    \/ GetBody
    \/ NewRequest
    \/ SetHeaders
    \/ ServeHTTP
    \/ ReadBody
    \/ Store
    \/ RunChecker

Next ==
    \/ AddCall
    \/ RunStart
    \/ RunStep

Spec == Init /\ [][Next]_vars

\* Run is ordinary sequential code: once called, it keeps taking steps.
FairSpec == Spec /\ WF_vars(RunStep)

(***************************************************************************)
(* Run over the Calls that can reach the store write, with a handler that  *)
(* may also answer every kind of body that is no JSON object.              *)
(***************************************************************************)
CaptureCalls == {c \in LiteralCalls : c.QueryStr = FetchQuery \/ c.respObject = "slice"}

CaptureInit ==
    /\ Init
    /\ Len(Calls) > 0
    /\ \A i \in 1..Len(Calls) : Calls[i] \in CaptureCalls

ServeAnyBody == ServeHTTPFrom(Responses \cup NonObjectResponses)

CaptureNext ==
    \/ RunStart
    \/ GetBody
    \/ NewRequest
    \/ SetHeaders
    \/ ServeAnyBody
    \/ ReadBody
    \/ Store
    \/ RunChecker

CaptureSpec == CaptureInit /\ [][CaptureNext]_vars

(***************************************************************************)
(* The template functions and the branch checker called on their own,     *)
(* once, on stores, bodies and key paths drawn from small sets (what they  *)
(* return depends on their arguments alone).                               *)
(***************************************************************************)
Keys == {"a", "b", "c", "x"}

Paths == UNION {[1..k -> Keys] : k \in 0..MaxPath}

\* Stores: what Run writes (objects, the nil map) and what a caller of the
\* exported Values type may put (a number, a list).
Stores ==
    { {},
      {<<"a", JObj({<<"b", JStr("x")>>})>>},
      {<<"a", JObj({})>>},
      {<<"a", JNum(5)>>},
      {<<"a", JObj({<<"x", JNum(1)>>})>>, <<"x", JNilMap>>},
      {<<"a", JObj({<<"b", JObj({<<"c", JNum(7)>>})>>})>>, <<"b", JList({<<"0", JNum(1)>>})>>} }

Evaluated(fn, d, key, r) == [fn |-> fn, doc |-> d, path |-> key, err |-> r.err, v |-> r.v]

CallFieldTmpl ==
    /\ eval = NoEval
    /\ \E st \in Stores, key \in Paths :
          eval' = Evaluated("fieldTmpl", JObj(st), key, fieldTmpl(st, key))
    /\ UNCHANGED <<Calls, values, reported, pc, idx, ci, body, req, resp, respBody,
                   decoded, trace>>

CallJsonFieldTmpl ==
    /\ eval = NoEval
    /\ \E st \in Stores, key \in Paths :
          eval' = Evaluated("jsonFieldTmpl", JObj(st), key, jsonFieldTmpl(st, key))
    /\ UNCHANGED <<Calls, values, reported, pc, idx, ci, body, req, resp, respBody,
                   decoded, trace>>

\* The segments of a branch path: keys, and the text of values.
Nodes == {"a", "b", "c", "d", "y", "5"}

Branches == UNION {[1..k -> Nodes] : k \in 0..MaxNodes}

\* Response bodies given to the checker: objects, and a list.
Bodies ==
    { JObj({<<"a", JObj({<<"b", JObj({<<"c", JNum(5)>>})>>})>>}),
      JObj({<<"a", JObj({<<"b", JStr("x")>>})>>}),
      JObj({<<"a", JNum(1)>>, <<"b", JObj({<<"c", JStr("d")>>})>>}),
      JObj({<<"a", JObj({<<"d", JNum(1)>>})>>, <<"c", JStr("y")>>}),
      JList({<<"0", JNum(1)>>, <<"1", JNum(2)>>}) }

CallExpectJSONBranch ==
    /\ eval = NoEval
    /\ \E b \in Bodies, nodes \in Branches :
          eval' = Evaluated("ExpectJSONBranch", b, nodes,
                            [err |-> CheckerErr(ExpectJSONBranch(nodes), NoResp, b),
                             v |-> JUnset])
    /\ UNCHANGED <<Calls, values, reported, pc, idx, ci, body, req, resp, respBody,
                   decoded, trace>>

FuncInit ==
    /\ Init
    /\ Calls = <<>>

FuncNext ==
    \/ CallFieldTmpl
    \/ CallJsonFieldTmpl
    \/ CallExpectJSONBranch

FuncSpec == FuncInit /\ [][FuncNext]_vars

(***************************************************************************)
(* Reading the history.                                                    *)
(***************************************************************************)
CallIds == 1..Len(Calls)

\* Call c did ev.
Has(c, ev) == \E i \in 1..Len(trace) : trace[i].c = c /\ trace[i].ev = ev

\* Call c met a failure of this kind.
Failed(c, kind) ==
    \E i \in 1..Len(trace) : trace[i].c = c /\ trace[i].ev = "fail" /\ trace[i].k = kind

\* How many failures of these kinds call c met, and how many reports of a kind
\* the sink holds for it.
NFailed(c, kinds) ==
    Cardinality({i \in 1..Len(trace) :
                    trace[i].c = c /\ trace[i].ev = "fail" /\ trace[i].k \in kinds})

NReported(c, kind) ==
    Cardinality({i \in 1..Len(reported) : reported[i].c = c /\ reported[i].kind = kind})

\* How many times call c did ev.
NEvents(c, ev) ==
    Cardinality({i \in 1..Len(trace) : trace[i].c = c /\ trace[i].ev = ev})

\* The response the handler gave call c (which was served).
Served(c) == (CHOOSE i \in 1..Len(trace) : trace[i].c = c /\ trace[i].ev = "serve")

ResponseOf(c) == trace[Served(c)].r

\* The checkers call c ran so far, in the order it ran them.
ChecksOf(c) == SelectSeq(trace, LAMBDA e : e.c = c /\ e.ev = "check")

DistinctNames == \A a, b \in CallIds : a # b => Calls[a].Name # Calls[b].Name

\* Run stands between two Calls, or has returned: idx - 1 Calls are processed.
BetweenCalls == pc \in {"GetBody", "done"}

\* The loop has entered every Call once, in declaration order.
VisitedAll ==
    SelectSeq(trace, LAMBDA e : e.ev = "call") = [i \in CallIds |-> Ev(i, "call", "", 0, NoResp)]

\* Run went on to the Call after c, if there is one.
WentOn(c) == c < idx /\ (c < Len(Calls) => Has(c + 1, "call"))

RenderKinds == {"render-body", "render-query", "render-header"}

(***************************************************************************)
(* C1.  As claimed: right after Call i is processed the store has an entry *)
(* under the name of every Call j <= i whose response had a body, and none *)
(* under the name of a Call k > i (names distinct).  Refuted: a Call whose  *)
(* typed decode fails had a body and leaves no entry.                      *)
(***************************************************************************)
C1_EntryForEveryBody ==
    (BetweenCalls /\ DistinctNames) =>
        /\ \A j \in 1..(idx - 1) :
              (Has(j, "serve") /\ ResponseOf(j).hasBody) => MapHas(values, Calls[j].Name)
        /\ \A k \in idx..Len(Calls) : ~MapHas(values, Calls[k].Name)

\* C1 as amended: right after Call i is processed the store has an entry under
\* the name of every Call j <= i whose response had a body and whose typed
\* decode, if it has a decode target, did not fail; and none under the name of a
\* Call k > i (names distinct).
C1_EntryForEveryDecodedBody ==
    (BetweenCalls /\ DistinctNames) =>
        /\ \A j \in 1..(idx - 1) :
              (Has(j, "serve") /\ ResponseOf(j).hasBody /\ ~Failed(j, "decode"))
                  => MapHas(values, Calls[j].Name)
        /\ \A k \in idx..Len(Calls) : ~MapHas(values, Calls[k].Name)

C1_Witness ==
    /\ pc = "GetBody" /\ idx = 2 /\ DistinctNames
    /\ Has(1, "serve") /\ MapHas(values, Calls[1].Name)
    /\ ~MapHas(values, Calls[2].Name)

(***************************************************************************)
(* C2.  As claimed: when the templates of Call N are rendered the store    *)
(* holds the captured response of every earlier Call, and after "create"   *)
(* was answered {"id": 7} a later /items/{{field "create" "id"}} is built  *)
(* as /items/7.  Refuted: an earlier Call whose typed decode failed left   *)
(* nothing to see.                                                         *)
(***************************************************************************)
Rendering == pc \in {"GetBody", "NewRequest", "SetHeaders"}

Captured(j) == UnmarshalMap(ResponseOf(j).doc).v

CreateAnswered7 ==
    /\ idx > 1
    /\ Calls[1].Name = "create"
    /\ Has(1, "serve")
    /\ ResponseOf(1).doc = JObj({<<"id", JNum(7)>>})

C2_SeesEveryEarlierResponse ==
    /\ Rendering =>
          \A j \in 1..(idx - 1) :
              Has(j, "serve") =>
                  /\ MapHas(values, Calls[j].Name)
                  /\ MapGet(values, Calls[j].Name) = Captured(j)
    /\ (req.built /\ CreateAnswered7 /\ CurCall.QueryStr = FetchQuery)
          => req.url = "/items/7"

\* No Call after j and before Call n wrote the store under j's name.
NotOverwritten(j, n) ==
    \A k \in (j + 1)..(n - 1) : ~(Has(k, "store") /\ Calls[k].Name = Calls[j].Name)

\* C2 as amended: when the templates of Call N are rendered the store holds,
\* under the name of every earlier Call that wrote its entry (its typed decode,
\* if any, did not fail), the value that Call stored, unless a Call in between
\* wrote under the same name; so after "create" ran first, was answered
\* {"id": 7} and wrote its entry, a later /items/{{field "create" "id"}} with no
\* other "create" in between is built as /items/7.
C2_SeesEveryStoredResponse ==
    /\ Rendering =>
          \A j \in 1..(idx - 1) :
              (Has(j, "store") /\ NotOverwritten(j, idx)) =>
                  /\ MapHas(values, Calls[j].Name)
                  /\ MapGet(values, Calls[j].Name) = Captured(j)
    /\ (req.built /\ CreateAnswered7 /\ CurCall.QueryStr = FetchQuery
           /\ Has(1, "store") /\ NotOverwritten(1, idx))
          => req.url = "/items/7"

C2_Witness ==
    /\ pc = "SetHeaders" /\ idx = 2
    /\ CreateAnswered7
    /\ CurCall.QueryStr = FetchQuery
    /\ req.url = "/items/7"

(***************************************************************************)
(* C3.  Run has no early abort: whatever fails, the loop enters every Call *)
(* exactly once in declaration order, and Run, once called, returns.       *)
(***************************************************************************)
C3_NoEarlyAbort ==
    /\ [](pc = "done" => VisitedAll)
    /\ [](pc # "setup" => <>(pc = "done"))

C3_Witness ==
    /\ pc = "done" /\ Len(Calls) = 2
    /\ \E k \in {"body", "request", "decode", "check"} : Failed(1, k)
    /\ Has(2, "serve")

(***************************************************************************)
(* C4.  As claimed: during one Run the entry of a call name is written at  *)
(* most once, for every list of Calls the Tester accepts.  Refuted: two    *)
(* Calls of the same name both write it.                                   *)
(***************************************************************************)
WritesUnder(name) ==
    Cardinality({i \in 1..Len(trace) : trace[i].ev = "store" /\ trace[i].k = name})

C4_NameWrittenAtMostOnce == \A c \in CallIds : WritesUnder(Calls[c].Name) <= 1

\* C4 as amended: during one Run every Call writes the store at most once, so
\* that the entry of a call name is written at most once for every list of
\* Calls whose names are distinct.
C4_CallWritesAtMostOnce ==
    /\ \A c \in CallIds : NEvents(c, "store") <= 1
    /\ DistinctNames => \A c \in CallIds : WritesUnder(Calls[c].Name) <= 1
    /\ \A i \in 1..Len(trace) : trace[i].ev = "store" => trace[i].k = Calls[trace[i].c].Name

C4_Witness ==
    /\ pc = "done" /\ Len(Calls) = 2 /\ DistinctNames
    /\ Has(1, "store") /\ Has(2, "store")
    /\ Len(Calls[1].checkers) > 0

(***************************************************************************)
(* C5.  Calls run one after the other and the steps of a Call are ordered: *)
(* its templates are rendered, the handler is invoked once, its store      *)
(* entry is written, its checkers run.  The write of Call N precedes its   *)
(* first checker, and the handler is not invoked for Call N+1 before the   *)
(* last checker of Call N has returned.                                    *)
(***************************************************************************)
\* The place of a history entry among the steps of its Call.
Rank(e) ==
    CASE e.ev = "call" -> 0
      [] e.ev = "render" -> 1
      [] e.ev = "serve" -> 2
      [] e.ev = "store" -> 3
      [] e.ev = "check" -> 4
      [] e.ev = "fail" ->
           IF e.k \in RenderKinds \cup {"body", "request"} THEN 1
           ELSE IF e.k \in {"decode", "capture"} THEN 3 ELSE 4

C5_StepsInOrder ==
    /\ \A i \in 1..(Len(trace) - 1) :
          \/ trace[i].c < trace[i + 1].c
          \/ trace[i].c = trace[i + 1].c /\ Rank(trace[i]) <= Rank(trace[i + 1])
    /\ \A c \in CallIds :
          /\ NEvents(c, "serve") <= 1
          /\ Has(c, "store") => NEvents(c, "serve") = 1
          /\ Has(c, "check") => Has(c, "store")
          /\ (c < idx /\ Has(c, "store")) => Len(ChecksOf(c)) = Len(Calls[c].checkers)
    /\ pc = "Checkers" =>
          /\ MapHas(values, CurCall.Name)
          /\ MapGet(values, CurCall.Name) = UnmarshalMap(resp.doc).v

C5_Witness ==
    /\ pc = "Checkers" /\ idx = 2 /\ ci = 2
    /\ Has(1, "check") /\ Has(2, "render") /\ Has(2, "store")

(***************************************************************************)
(* C6.  As claimed: when rendering a Call's QueryStr fails, Run reports    *)
(* it, does not invoke the handler for that Call and continues with the    *)
(* next Call.  Refuted: applyTemplate returns "", http.NewRequest accepts  *)
(* the empty URL, and the handler is invoked.                              *)
(***************************************************************************)
C6_QueryFailureSkipsHandler ==
    \A c \in CallIds :
        Failed(c, "render-query") =>
            /\ NReported(c, "render") >= 1
            /\ ~Has(c, "serve")

\* C6 as amended: when rendering a Call's QueryStr fails, Run reports it, builds
\* the request with the empty string as its URL and, unless the method is
\* refused, still invokes the handler for that Call with that request; it then
\* continues with the next Call.
C6_QueryFailureServesEmptyURL ==
    \A c \in CallIds :
        Failed(c, "render-query") =>
            /\ NReported(c, "render") >= 1
            /\ Has(c, "serve") => trace[Served(c)].k = ""
            /\ (c < idx /\ Calls[c].Method \notin BadMethods) => Has(c, "serve")
            /\ c < idx => WentOn(c)
            /\ pc = "done" => VisitedAll

C6_Witness ==
    /\ Len(Calls) = 2 /\ idx = 2
    /\ Failed(1, "render-query")
    /\ Has(1, "serve") /\ trace[Served(1)].k = ""
    /\ Has(2, "call")

(***************************************************************************)
(* C7.  When a Call has a decode target and decoding the response body     *)
(* into it fails, Run reports it once and skips the rest of the Call: no   *)
(* store entry is written under its name, none of its checkers runs; the   *)
(* next Call is still processed.                                           *)
(***************************************************************************)
C7_DecodeFailureSkipsRest ==
    \A c \in CallIds :
        Failed(c, "decode") =>
            /\ Calls[c].respObject # "nil"
            /\ NFailed(c, {"decode"}) = 1
            /\ NReported(c, "decode") = 1
            /\ ~Has(c, "store")
            /\ ~Has(c, "check")
            /\ decoded[c] = JUnset
            /\ DistinctNames => ~MapHas(values, Calls[c].Name)
            /\ WentOn(c)
            /\ pc = "done" => VisitedAll

C7_Witness ==
    /\ pc = "done" /\ Len(Calls) = 2
    /\ Failed(1, "decode")
    /\ Len(Calls[1].checkers) > 0
    /\ Has(2, "serve")

(***************************************************************************)
(* C8.  As claimed: every failure during Run - template render, request    *)
(* construction, response decode, checker - is reported exactly once.      *)
(* Refuted: the failure of the generic decode into the store is discarded. *)
(***************************************************************************)
C8_EveryFailureReportedOnce ==
    \A c \in CallIds :
        /\ NReported(c, "render") = NFailed(c, RenderKinds)
        /\ NReported(c, "body") = NFailed(c, {"body"})
        /\ NReported(c, "request") = NFailed(c, {"request"})
        /\ NReported(c, "decode") = NFailed(c, {"decode", "capture"})
        /\ NReported(c, "check") = NFailed(c, {"check"})

\* C8 as amended: every failure during Run other than the failure of the
\* generic decode into the store - template render, body, request
\* construction, typed response decode, checker - is reported exactly once, and
\* nothing else is reported; the failure of the generic decode is not reported.
C8_EveryFailureButCaptureReportedOnce ==
    /\ \A c \in CallIds :
          /\ NReported(c, "render") = NFailed(c, RenderKinds)
          /\ NReported(c, "body") = NFailed(c, {"body"})
          /\ NReported(c, "request") = NFailed(c, {"request"})
          /\ NReported(c, "decode") = NFailed(c, {"decode"})
          /\ NReported(c, "check") = NFailed(c, {"check"})
    /\ \A i \in 1..Len(reported) :
          /\ reported[i].c \in CallIds
          /\ reported[i].kind \in {"render", "body", "request", "decode", "check"}

C8_Witness ==
    /\ pc = "done" /\ Len(Calls) = 2
    /\ NFailed(1, RenderKinds) = 2 /\ NReported(1, "render") = 2
    /\ Failed(1, "capture")
    /\ Failed(1, "check")
    /\ Failed(2, "decode")

(***************************************************************************)
(* C9.  For every Call that reaches its checkers, each checker is invoked  *)
(* exactly once, in attachment order, against the Call's own response; a   *)
(* failing checker is reported on its own and stops neither the later      *)
(* checkers nor the later Calls, so the Call's checker reports are as many *)
(* as its failing checkers.                                                *)
(***************************************************************************)
\* The checkers of call c, among the first n, that fail on its response.
FailingCheckers(c, n) ==
    {i \in 1..n : CheckerErr(Calls[c].checkers[i], ResponseOf(c), ResponseOf(c).doc)}

C9_EveryCheckerOnce ==
    \A c \in CallIds :
        LET ch == ChecksOf(c)
        IN  /\ Len(ch) <= Len(Calls[c].checkers)
            /\ \A i \in 1..Len(ch) : ch[i].n = i /\ ch[i].r = ResponseOf(c)
            /\ (c < idx /\ Has(c, "store")) =>
                  /\ Len(ch) = Len(Calls[c].checkers)
                  /\ WentOn(c)
            /\ Has(c, "serve") =>
                  NReported(c, "check") = Cardinality(FailingCheckers(c, Len(ch)))
            /\ \A i \in 1..Len(reported) :
                  (reported[i].c = c /\ reported[i].kind = "check") => reported[i].named

C9_Witness ==
    /\ pc = "done" /\ Len(Calls) = 2
    /\ Len(Calls[1].checkers) = 2
    /\ Len(ChecksOf(1)) = 2
    /\ NReported(1, "check") = 2
    /\ Has(2, "check")

(***************************************************************************)
(* C10.  When Body.GetBody or the construction of the request fails for a  *)
(* Call, Run reports it and skips the Call: the handler is not invoked,    *)
(* the store is left as it was, no checker of the Call runs; the next Call *)
(* is processed.                                                           *)
(***************************************************************************)
C10_BodyOrRequestFailureSkipsCall ==
    \A c \in CallIds :
        \A kind \in {"body", "request"} :
            Failed(c, kind) =>
                /\ NReported(c, kind) = 1
                /\ ~Has(c, "serve")
                /\ ~Has(c, "store")
                /\ ~Has(c, "check")
                /\ WentOn(c)
                /\ MapKeys(values) = {Calls[j].Name : j \in {i \in CallIds : Has(i, "store")}}
                /\ pc = "done" => VisitedAll

C10_Witness ==
    /\ pc = "done" /\ Len(Calls) = 2
    /\ Failed(1, "body")
    /\ Failed(2, "request")
    /\ values = {}

(***************************************************************************)
(* C11.  As claimed: the store is empty when the Tester is created, grows  *)
(* by exactly one entry for each executed Call that produced a response,   *)
(* and never shrinks.  Refuted: a Call whose typed decode fails produced a *)
(* response and adds no entry (nor does a Call whose name is stored).      *)
(***************************************************************************)
C11_OneEntryPerResponse ==
    /\ pc = "setup" => values = {}
    /\ BetweenCalls =>
          Cardinality(values) = Cardinality({j \in 1..(idx - 1) : Has(j, "serve")})

\* The names of the Calls that wrote the store so far.
StoredNames == {Calls[j].Name : j \in {i \in CallIds : Has(i, "store")}}

\* C11 as amended: the store is empty when the Tester is created, grows by
\* exactly one entry for each executed Call that reaches the store write (its
\* response was read and its typed decode, if it has a decode target, did not
\* fail) under a name not stored yet, is left with the same names by every
\* other step, and never shrinks: no step of Run removes an entry, and the set
\* of stored names only increases over the run.
C11_OneEntryPerNewStoredName ==
    /\ [](pc = "setup" => values = {})
    /\ [](MapKeys(values) = StoredNames /\ Cardinality(values) = Cardinality(StoredNames))
    /\ [][/\ MapKeys(values) \subseteq MapKeys(values')
          /\ (pc = "Store" /\ ~MapHas(values, CurCall.Name))
                => /\ Cardinality(values') = Cardinality(values) + 1
                   /\ MapHas(values', CurCall.Name)
          /\ ~(pc = "Store" /\ ~MapHas(values, CurCall.Name))
                => MapKeys(values') = MapKeys(values)]_vars

C11_Witness ==
    /\ pc = "done" /\ Len(Calls) = 2
    /\ Cardinality(values) = 2
    /\ MapKeys(values) = {"create", "fetch"}

(***************************************************************************)
(* C12.  A response body that is no JSON object (empty, a list, a scalar,  *)
(* bytes that are no JSON) never makes the generic capture fail the Call:  *)
(* the decode error is not reported, the entry under the Call's name is    *)
(* left null, the checkers still run, and the run continues.               *)
(***************************************************************************)
\* Call c was answered a body that is no JSON object, and its typed decode, if
\* it has a decode target, took it.
NonObjectToCapture(c) ==
    /\ Has(c, "serve")
    /\ ResponseOf(c).doc.t # "obj"
    /\ Calls[c].respObject # "nil" =>
          ~UnmarshalTyped(ResponseOf(c).doc, Calls[c].respObject)

C12_NonObjectBodyCapturedSilently ==
    \A c \in CallIds :
        NonObjectToCapture(c) =>
            /\ \A i \in 1..Len(reported) :
                  reported[i].c = c => reported[i].kind \in {"render", "check"}
            /\ NReported(c, "check") =
                  Cardinality(FailingCheckers(c, Len(ChecksOf(c))))
            /\ (/\ Has(c, "store")
                /\ \A j \in (c + 1)..Len(Calls) :
                      Has(j, "store") => Calls[j].Name # Calls[c].Name)
                  => /\ MapHas(values, Calls[c].Name)
                     /\ MapGet(values, Calls[c].Name) = JNilMap
            /\ c < idx =>
                  /\ Has(c, "store")
                  /\ Len(ChecksOf(c)) = Len(Calls[c].checkers)
                  /\ WentOn(c)
            /\ pc = "done" => VisitedAll

C12_Witness ==
    /\ pc = "done" /\ Len(Calls) = 2
    /\ NonObjectToCapture(1) /\ ResponseOf(1).doc = JInvalid("")
    /\ Len(ChecksOf(1)) = 2
    /\ NonObjectToCapture(2) /\ ResponseOf(2).doc = JList({<<"0", JNum(1)>>, <<"1", JNum(2)>>})
    /\ values = {<<Calls[1].Name, JNilMap>>, <<Calls[2].Name, JNilMap>>}
    /\ Calls[1].Name # Calls[2].Name

(***************************************************************************)
(* Reading a document along a key path: the value reached after k keys     *)
(* when every key before was found on an object (or the nil map), else     *)
(* where the walk stopped: at a key that is absent ("missing") or at a      *)
(* value that is no map ("nonmap").                                        *)
(***************************************************************************)
RECURSIVE Reach(_, _, _)
Reach(d, key, k) ==
    IF k = 0 THEN [st |-> "value", v |-> d]
    ELSE LET r == Reach(d, key, k - 1)
         IN  IF r.st # "value" THEN r
             ELSE IF r.v.t \notin {"obj", "nilmap"} THEN [st |-> "nonmap", v |-> r.v]
             ELSE IF ~MapHas(r.v.m, key[k]) THEN [st |-> "missing", v |-> r.v]
             ELSE [st |-> "value", v |-> MapGet(r.v.m, key[k])]

(***************************************************************************)
(* C13.  As claimed: field never fails because of a missing key: whenever  *)
(* a key, the last one or one before, is absent on a map-like node the     *)
(* result is the string <no value>; it fails only when a further key is    *)
(* asked of an existing value that is no map.  The code fails when a key   *)
(* follows an absent one.                                                  *)
(***************************************************************************)
C13_MissingKeyNeverFails ==
    eval.fn = "fieldTmpl" =>
        LET r == Reach(eval.doc, eval.path, Len(eval.path))
        IN  CASE r.st = "missing" -> ~eval.err /\ eval.v = JStr("<no value>")
              [] r.st = "nonmap" -> eval.err
              [] OTHER -> ~eval.err /\ eval.v = r.v

(***************************************************************************)
(* C14.  json(path...) walks exactly as field does: it fails if and only   *)
(* if field fails on the same store and keys, and otherwise returns the    *)
(* JSON text of the value field returns (json("a") yields {"x":1} when a   *)
(* maps to that object; a string is quoted, the nil map is null).          *)
(***************************************************************************)
C14_JsonFollowsField ==
    eval.fn = "jsonFieldTmpl" =>
        LET f == fieldTmpl(eval.doc.m, eval.path)
            r == Reach(eval.doc, eval.path, Len(eval.path))
        IN  /\ eval.err = f.err
            /\ ~f.err => eval.v = JStr(Marshal(f.v))
            /\ (~f.err /\ f.v = JObj({<<"x", JNum(1)>>})) => eval.v = JStr("{\"x\":1}")
            /\ (~f.err /\ f.v = JStr("x")) => eval.v = JStr("\"x\"")
            /\ (~f.err /\ f.v = JNum(7)) => eval.v = JStr("7")
            /\ (~f.err /\ f.v = JNilMap) => eval.v = JStr("null")
            /\ r.st = "value" => ~eval.err

C14_Witness ==
    /\ eval.fn = "jsonFieldTmpl"
    /\ eval.path = <<"a">>
    /\ <<"a", JObj({<<"x", JNum(1)>>})>> \in eval.doc.m
    /\ ~eval.err
    /\ eval.v = JStr("{\"x\":1}")

(***************************************************************************)
(* C15.  ExpectJSONBranch on a body that is a JSON object: it fails if a   *)
(* key of the path is missing at any depth; it passes when the path is     *)
(* used up while still walking objects (presence only, a path of one       *)
(* segment included); and when the second-to-last segment resolves to a    *)
(* value that is no object it passes exactly when the text of that value   *)
(* equals the last segment.  (a, b, c) passes on {"a":{"b":{"c":5}}} and   *)
(* (a, b, y) fails on {"a":{"b":"x"}}.                                     *)
(***************************************************************************)
C15_BranchPresenceAndValue ==
    (eval.fn = "ExpectJSONBranch" /\ eval.doc.t = "obj") =>
        LET n == Len(eval.path)
            last == Reach(eval.doc, eval.path, n)
            prev == Reach(eval.doc, eval.path, n - 1)
        IN  /\ last.st = "missing" => eval.err
            /\ last.st = "value" => ~eval.err
            /\ (n >= 2 /\ prev.st = "value" /\ prev.v.t # "obj")
                  => (~eval.err <=> FmtV(prev.v) = eval.path[n])
            /\ (/\ eval.path = <<"a", "b", "c">>
                /\ eval.doc = JObj({<<"a", JObj({<<"b", JObj({<<"c", JNum(5)>>})>>})>>}))
                  => ~eval.err
            /\ (/\ eval.path = <<"a", "b", "y">>
                /\ eval.doc = JObj({<<"a", JObj({<<"b", JStr("x")>>})>>}))
                  => eval.err

C15_Witness ==
    /\ eval.fn = "ExpectJSONBranch"
    /\ eval.doc = JObj({<<"a", JObj({<<"b", JObj({<<"c", JNum(5)>>})>>})>>})
    /\ eval.path = <<"a", "b", "c", "5">>
    /\ ~eval.err

(***************************************************************************)
(* C19.  In ExpectJSONBranch, when a segment at an index before the        *)
(* second-to-last resolves to a value that is no object, the checker       *)
(* neither fails nor descends at that segment: the next segment is looked  *)
(* up in the same object, and the outcome is that of the rest of the path  *)
(* on that object.  (a, b, c, d) passes on {"a":1,"b":{"c":"d"}}.          *)
(***************************************************************************)
C19_EarlyValueIsSteppedOver ==
    (eval.fn = "ExpectJSONBranch" /\ eval.doc.t = "obj") =>
        LET n == Len(eval.path)
        IN  /\ \A k \in 1..(n - 2) :
                  LET at == Reach(eval.doc, eval.path, k - 1)
                      v == Reach(eval.doc, eval.path, k)
                  IN  (v.st = "value" /\ v.v.t # "obj") =>
                          /\ ~MapHas(at.v.m, eval.path[k + 1]) => eval.err
                          /\ eval.err = ExpectJSONBranchErr(SubSeq(eval.path, k + 1, n), at.v)
            /\ (/\ eval.path = <<"a", "b", "c", "d">>
                /\ eval.doc = JObj({<<"a", JNum(1)>>, <<"b", JObj({<<"c", JStr("d")>>})>>}))
                  => ~eval.err

C19_Witness ==
    /\ eval.fn = "ExpectJSONBranch"
    /\ eval.doc = JObj({<<"a", JNum(1)>>, <<"b", JObj({<<"c", JStr("d")>>})>>})
    /\ eval.path = <<"a", "b", "c", "d">>
    /\ ~eval.err

(***************************************************************************)
(* C16.  Running a Tester that has no Call returns at once: the handler is *)
(* not invoked, the store is not written, no failure is reported.          *)
(***************************************************************************)
C16_NoCallsNoEffect ==
    (Len(Calls) = 0 /\ pc # "setup") =>
        /\ pc = "done"
        /\ trace = <<>>
        /\ values = {}
        /\ reported = <<>>
        /\ req = NoReq /\ resp = NoResp

C16_Witness ==
    /\ Len(Calls) = 0
    /\ pc = "done"
    /\ idx = 1

(***************************************************************************)
(* C17.  AddCall appends exactly one Call at the end of the list, leaving  *)
(* the Calls before it as they were, and normalizes the body it is given:  *)
(* a Body is kept as it is, a non-empty string becomes a StringBody        *)
(* holding that string, anything else becomes a NoopBody.                  *)
(***************************************************************************)
NormalizedAsClaimed(arg, b) ==
    CASE arg.dyn = "Body" -> b = arg.b
      [] arg.dyn = "string" /\ arg.str # <<>> -> b.kind = "StringBody" /\ b.tmpl = arg.str
      [] OTHER -> b.kind = "NoopBody"

C17_AddCallAppendsNormalized ==
    /\ [](\A arg \in BodyArgs : NormalizedAsClaimed(arg, NormalizeBody(arg)))
    /\ [][Calls' # Calls =>
             /\ Len(Calls') = Len(Calls) + 1
             /\ SubSeq(Calls', 1, Len(Calls)) = Calls
             /\ \E arg \in BodyArgs :
                   NormalizedAsClaimed(arg, Calls'[Len(Calls')].Body)
             /\ pc = "setup" /\ pc' = "setup"
             /\ values' = values /\ reported' = reported /\ trace' = trace]_vars

C17_Witness ==
    /\ pc = "setup"
    /\ Len(Calls) = 2
    /\ Calls[1] \in LiteralCalls
    /\ Calls[2].checkers = <<>>
    /\ Calls[2].Body = StringBody(<<Lit("id="), Field(<<"create", "id">>)>>)

(***************************************************************************)
(* C18.  For every Call whose request is constructed, the request carries  *)
(* a content-type header taken from the Body exactly when the Body's       *)
(* ContentType() is not empty, and every configured header is set with its *)
(* key and its value both rendered against the current store; configured   *)
(* headers are applied after the Body's content type, so a configured      *)
(* content-type header replaces the Body's.                                *)
(***************************************************************************)
\* The configured headers of the current Call as rendered against the store:
\* pairs of the canonical key and the value.
ConfiguredHeaders ==
    {<<CanonicalKey(applyTemplate(values, h[1]).out), applyTemplate(values, h[2]).out>> :
        h \in CurCall.headers}

C18_HeadersAfterContentType ==
    pc = "ServeHTTP" =>
        LET contentType == CurCall.Body.ctype
            conf == ConfiguredHeaders
        IN  /\ req.built
            /\ MapKeys(req.header) =
                  MapKeys(conf) \cup (IF contentType # "" THEN {"Content-Type"} ELSE {})
            /\ \A h \in conf :
                  (\A g \in conf : g[1] = h[1] => g = h) => h \in req.header
            /\ "Content-Type" \notin MapKeys(conf) =>
                  /\ MapHas(req.header, "Content-Type") <=> contentType # ""
                  /\ contentType # "" => <<"Content-Type", contentType>> \in req.header
            /\ (/\ CurCall.Body.kind = "StringBody"
                /\ CurCall.headers = {<< <<Lit("content-type")>>, <<Lit("text/xml")>> >>})
                  => req.header = {<<"Content-Type", "text/xml">>}
            /\ (/\ <<"create", JObj({<<"id", JNum(7)>>})>> \in values
                /\ CurCall.headers = {<< <<Lit("x-id")>>, <<Field(<<"create", "id">>)>> >>})
                  => <<"X-Id", "7">> \in req.header

C18_Witness ==
    /\ pc = "ServeHTTP"
    /\ CurCall.Body.ctype = "application/json"
    /\ CurCall.headers = {<< <<Lit("content-type")>>, <<Lit("text/xml")>> >>}
    /\ req.header = {<<"Content-Type", "text/xml">>}

====
